---- MODULE Spec2Model ----
(***************************************************************************)
(* Model of cumulusci/core/tasks.py: the Task / BaseTask lifecycle.        *)
(*                                                                         *)
(* Python 3 semantics are assumed throughout: dicts keep insertion order,  *)
(* bytes.startswith(str) raises TypeError, `except Exception` does not     *)
(* catch BaseException-only exceptions.  The mixins BaseTask inherits      *)
(* (CCIOptionHandlerMixin, PollOrRetryMixin) are taken not to override     *)
(* any method defined in tasks.py.                                         *)
(*                                                                         *)
(* Python strings are sequences of tokens; the token PREFIX stands for the *)
(* literal '$project_config.'.  Python dicts are sequences of [k, v]       *)
(* items in insertion order.                                               *)
(***************************************************************************)
EXTENDS Integers, Sequences, FiniteSets, TLC

VARIABLES
    project_config,   \* [use_sentry, sentry_event, sentry_inits]: mutable part of the project context
    sentry,           \* what the reporting client received: sequence of [tags, error]
    task_config,      \* [options_is_None, options]: the caller's TaskConfig
    tasks             \* the Task instances constructed so far, in construction order

vars == <<project_config, sentry, task_config, tasks>>

\* Bounds of the model.
MaxTasks == 2       \* constructor calls
MaxCalls == 2       \* __call__ invocations, over all instances

-----------------------------------------------------------------------------
(* Python values *)

PREFIX == "$project_config."

PyStr(s)   == [type |-> "str",      v |-> s]
PyBytes(s) == [type |-> "bytes",    v |-> s]
PyInt(n)   == [type |-> "int",      v |-> <<n>>]
PyList(s)  == [type |-> "list",     v |-> s]
PyBool(b)  == [type |-> "bool",     v |-> <<b>>]
PyNone     == [type |-> "NoneType", v |-> <<>>]

\* exceptions: [type, args]
NoError == [type |-> "none", args |-> <<>>]
Error(t, a) == [type |-> t, args |-> a]

\* Exception subclasses, as opposed to BaseException-only ones (SystemExit, ...)
IsException(e) == e.type \notin {"none", "SystemExit", "KeyboardInterrupt"}

-----------------------------------------------------------------------------
(* dict: insertion-ordered sequence of items [k, v] with distinct keys *)

Keys(d) == {d[i].k : i \in 1..Len(d)}
Has(d, key) == key \in Keys(d)
IndexOf(d, key) == CHOOSE i \in 1..Len(d) : d[i].k = key
Get(d, key) == d[IndexOf(d, key)].v

\* d[key] = value
SetItem(d, key, value) ==
    IF Has(d, key) THEN [d EXCEPT ![IndexOf(d, key)].v = value]
    ELSE Append(d, [k |-> key, v |-> value])

\* d.update(other)
RECURSIVE Update(_, _)
Update(d, other) ==
    IF other = <<>> THEN d
    ELSE Update(SetItem(d, Head(other).k, Head(other).v), Tail(other))

\* dict equality is order-insensitive: compare as mappings
AsMap(d) == [key \in Keys(d) |-> Get(d, key)]

-----------------------------------------------------------------------------
(* str methods used by _init_options *)

\* value.startswith('$project_config.') for a str
startswith(s, prefix) == Len(s) >= 1 /\ s[1] = prefix

\* value.replace(old, '', 1): drop the first occurrence of old
RECURSIVE replace(_, _)
replace(s, old) ==
    IF s = <<>> THEN <<>>
    ELSE IF Head(s) = old THEN Tail(s)
    ELSE <<Head(s)>> \o replace(Tail(s), old)

-----------------------------------------------------------------------------
(* project context: the attributes $project_config.<attr> can name *)

ProjectAttrs ==
    << [k |-> <<"foo">>,   v |-> PyInt("42")],
       [k |-> <<"empty">>, v |-> PyNone],
       [k |-> <<"alias">>, v |-> PyStr(<<PREFIX, "foo">>)] >>

\* mutant: a missing attribute gives back the reference string
getattr_keeps_literal(attr, default) ==
    IF Has(ProjectAttrs, attr) THEN Get(ProjectAttrs, attr) ELSE PyStr(<<PREFIX>> \o attr)

\* getattr(self.project_config, attr, default)
getattr(attr, default) ==
    IF Has(ProjectAttrs, attr) THEN Get(ProjectAttrs, attr) ELSE default

-----------------------------------------------------------------------------
(* task types *)

\* Task and BaseTask as they are, and OrgTask: a BaseTask subclass that sets
\* salesforce_task and declares options.
Classes == {"Task", "BaseTask", "OrgTask"}

IsBaseTask(cls) == cls \in {"BaseTask", "OrgTask"}

\* class attribute salesforce_task
salesforce_task(cls) == cls = "OrgTask"

\* class attribute task_options: name -> config dict
task_options(cls) ==
    IF cls = "OrgTask"
    THEN << [k |-> "path", v |-> << [k |-> "required", v |-> PyBool("True")] >>],
            [k |-> "flag", v |-> << [k |-> "required", v |-> PyBool("False")] >>],
            [k |-> "ns",   v |-> << [k |-> "required", v |-> PyBool("True")] >>],
            [k |-> "note", v |-> << [k |-> "description", v |-> PyStr(<<"text">>)] >>] >>
    ELSE <<>>

get_task_options(cls) == task_options(cls)

\* org_config argument: None, or an object with username, org_id, scratch
NoOrg == [present |-> FALSE, username |-> "", org_id |-> "", scratch |-> FALSE]
ScratchOrg == [present |-> TRUE, username |-> "dev@scratch", org_id |-> "00D1", scratch |-> TRUE]
OrgConfigs == {NoOrg, ScratchOrg}

-----------------------------------------------------------------------------
(* Task._init_options *)

\* One pass of the try block for an item's value:
\* [exc, assigned, value], exc the exception the block ends with.
ResolveItem(value) ==
    CASE value.type = "str" ->
            IF startswith(value.v, PREFIX)
            THEN [exc |-> "none", assigned |-> TRUE,
                  value |-> getattr(replace(value.v, PREFIX), PyNone)]
            ELSE [exc |-> "none", assigned |-> FALSE, value |-> value]
      [] value.type = "bytes" ->
            \* bytes.startswith(str): TypeError, which the except clause lets through
            [exc |-> "TypeError", assigned |-> FALSE, value |-> value]
      [] OTHER ->
            \* no startswith attribute: AttributeError, caught
            [exc |-> "AttributeError", assigned |-> FALSE, value |-> value]

\* The for loop over list(self.options.items()): [options, exc]
RECURSIVE ResolveLoop(_, _)
ResolveLoop(items, options) ==
    IF items = <<>> THEN [options |-> options, exc |-> NoError]
    ELSE LET r == ResolveItem(Head(items).v)
         IN  CASE r.exc = "TypeError" ->
                    [options |-> options, exc |-> Error("TypeError", <<"startswith">>)]
               [] r.assigned ->
                    ResolveLoop(Tail(items), SetItem(options, Head(items).k, r.value))
               [] OTHER -> ResolveLoop(Tail(items), options)

\* mutant: the update the other way round, the config winning over kwargs
_init_options_config_wins(options, kwargs) ==
    LET updated == IF kwargs # <<>> THEN Update(kwargs, options) ELSE options
    IN  ResolveLoop(updated, updated)

\* mutant: the lookups made before kwargs are applied
_init_options_lookup_first(options, kwargs) ==
    LET r == ResolveLoop(options, options)
    IN  [options |-> IF kwargs # <<>> THEN Update(r.options, kwargs) ELSE r.options,
         exc |-> r.exc]

\* mutant: kwargs applied only to the options the config already has
_init_options_known_keys_only(options, kwargs) ==
    LET known == SelectSeq(kwargs, LAMBDA item : Has(options, item.k))
        updated == IF kwargs # <<>> THEN Update(options, known) ELSE options
    IN  ResolveLoop(updated, updated)

\* The dict self.options refers to when _init_options ends, given the dict it
\* starts from (task_config.options, or {} for None) and kwargs: [options, exc]
_init_options(options, kwargs) ==
    LET updated == IF kwargs # <<>> THEN Update(options, kwargs) ELSE options
    IN  ResolveLoop(updated, updated)

-----------------------------------------------------------------------------
(* Task._validate_options *)

\* config.get('required') is True
RequiredIsTrue(config) ==
    Has(config, "required") /\ Get(config, "required") = PyBool("True")

\* mutant: the loop left at the first missing option
RECURSIVE missing_required_first(_, _)
missing_required_first(items, options) ==
    IF items = <<>> THEN <<>>
    ELSE IF RequiredIsTrue(Head(items).v) /\ ~Has(options, Head(items).k)
    THEN <<Head(items).k>>
    ELSE missing_required_first(Tail(items), options)

RECURSIVE missing_required(_, _)
missing_required(items, options) ==
    IF items = <<>> THEN <<>>
    ELSE (IF RequiredIsTrue(Head(items).v) /\ ~Has(options, Head(items).k)
          THEN <<Head(items).k>> ELSE <<>>)
         \o missing_required(Tail(items), options)

\* mutant: raises only when more than one option is missing
_validate_options_off_by_one(cls, options) ==
    LET missing == missing_required(get_task_options(cls), options)
    IN  IF Len(missing) > 1
        THEN Error("TaskOptionsError", <<cls>> \o missing)
        ELSE NoError

\* The exception _validate_options ends with; args: class name, then the
\* names joined into the message.
_validate_options(cls, options) ==
    LET missing == missing_required(get_task_options(cls), options)
    IN  IF missing # <<>>
        THEN Error("TaskOptionsError", <<cls>> \o missing)
        ELSE NoError

-----------------------------------------------------------------------------
(* inputs *)

\* task_config.options as the caller built it: None or a dict
ConfigChoices ==
    { [options_is_None |-> TRUE,  options |-> <<>>],
      [options_is_None |-> FALSE, options |-> <<>>],
      [options_is_None |-> FALSE,
       options |-> << [k |-> "path", v |-> PyStr(<<"/tmp">>)],
                      [k |-> "flag", v |-> PyInt("1")] >>],
      [options_is_None |-> FALSE,
       options |-> << [k |-> "ns",   v |-> PyStr(<<PREFIX, "missing">>)],
                      [k |-> "path", v |-> PyStr(<<PREFIX, "foo">>)] >>],
      [options_is_None |-> FALSE,
       options |-> << [k |-> "ns",   v |-> PyStr(<<PREFIX, "alias">>)],
                      [k |-> "flag", v |-> PyList(<<"a", "b">>)] >>] }

\* **kwargs of the constructor
KwargsChoices ==
    { <<>>,
      << [k |-> "path", v |-> PyStr(<<"/src">>)] >>,
      << [k |-> "ns",   v |-> PyNone],
         [k |-> "path", v |-> PyStr(<<PREFIX, "missing">>)] >>,
      << [k |-> "flag", v |-> PyStr(<<PREFIX, "empty">>)],
         [k |-> "path", v |-> PyStr(<<PREFIX, "foo">>)] >>,
      << [k |-> "flag", v |-> PyBytes(<<PREFIX, "foo">>)] >> }

\* what the action (_run_task of a subclass) may do: set return_values
\* entries, then return a value or raise
ActionOutcomes ==
    { [rv |-> <<>>, ret |-> PyNone, exc |-> NoError],
      [rv |-> << [k |-> "id", v |-> PyInt("7")] >>, ret |-> PyInt("0"), exc |-> NoError],
      [rv |-> <<>>, ret |-> PyNone, exc |-> Error("ActionError", <<"boom">>)],
      [rv |-> << [k |-> "id", v |-> PyInt("7")] >>, ret |-> PyNone,
       exc |-> Error("ActionError", <<"late">>)],
      [rv |-> <<>>, ret |-> PyNone, exc |-> Error("SystemExit", <<>>)] }

\* event handles the reporting client may return
EventIds == {PyStr(<<"event-1">>), PyStr(<<"event-2">>)}

-----------------------------------------------------------------------------
(* state *)

Init ==
    /\ \E use \in BOOLEAN :
          project_config = [use_sentry |-> use, sentry_event |-> PyNone, sentry_inits |-> 0]
    /\ sentry = <<>>
    /\ task_config \in ConfigChoices
    /\ tasks = <<>>

\* mutant: the credential check made only after the options are initialised
Phases_check_after_options ==
    << "_init_logger", "_init_mixins", "_init_options", "credential_check",
       "_validate_options", "_update_credentials", "_init_task" >>

\* the constructor's phases after the attribute assignments, in source order
Phases == << "credential_check", "_init_logger", "_init_mixins", "_init_options",
             "_validate_options", "_update_credentials", "_init_task" >>

PhaseIndex(phase) == CHOOSE n \in 1..Len(Phases) : Phases[n] = phase

\* mutant: the call of _validate_options left out
After_skips_validation(phase) ==
    IF phase = "_init_options" THEN "_update_credentials"
    ELSE IF PhaseIndex(phase) = Len(Phases) THEN "ready"
    ELSE Phases[PhaseIndex(phase) + 1]

\* where __init__ goes once `phase` has returned normally
After(phase) ==
    IF PhaseIndex(phase) = Len(Phases) THEN "ready" ELSE Phases[PhaseIndex(phase) + 1]

\* an instance between operations: no constructor or __call__ of it is running
AtRest(t) == t.pc \in {"failed", "ready", "returned", "raised"}

Idle == \A i \in 1..Len(tasks) : AtRest(tasks[i])

Constructed(t) == t.pc \in {"ready", "_log_begin", "_run_task", "_process_exception",
                            "returned", "raised"}

\* the dict self.options refers to
Options(t) ==
    IF t.options_ref = "task_config" THEN task_config.options ELSE t.own_options

RECURSIVE TotalCalls(_)
TotalCalls(ts) == IF ts = <<>> THEN 0 ELSE Head(ts).calls + TotalCalls(Tail(ts))

\* instance i ends its running phase: normally, or with exception exc
EndPhase(t, phase, exc) ==
    IF exc = NoError
    THEN [t EXCEPT !.pc = After(phase), !.trace = Append(@, phase)]
    ELSE [t EXCEPT !.pc = "failed", !.trace = Append(@, phase), !.error = exc]

-----------------------------------------------------------------------------
(* Task.__init__ *)

\* lines 25-36: the attribute assignments
New(cls, org_config, flow, kwargs) ==
    /\ Len(tasks) < MaxTasks
    /\ Idle
    /\ tasks' = Append(tasks,
          [ cls |-> cls, org_config |-> org_config, flow |-> flow, kwargs |-> kwargs,
            options_ref |-> "unset", own_options |-> <<>>, resolved |-> <<>>,
            return_values |-> <<>>, result |-> PyNone,
            pc |-> Phases[1], error |-> NoError, trace |-> <<>>,
            config_at_entry |-> task_config,
            log |-> <<>>, calls |-> 0, action_runs |-> 0,
            action_state |-> "none", action_ret |-> PyNone, action_rv |-> <<>>,
            result_at_call |-> PyNone, return_values_at_call |-> <<>>,
            sentry_at_call |-> 0, event_at_call |-> PyNone,
            action_error |-> NoError, intercepted |-> <<>>, returned |-> <<>> ])
    /\ UNCHANGED <<project_config, sentry, task_config>>

\* self.salesforce_task and not self.org_config
OrgMissing(cls, org_config) == salesforce_task(cls) /\ ~org_config.present

\* lines 38-42
CheckCredentials(i) ==
    /\ tasks[i].pc = "credential_check"
    /\ tasks' = [tasks EXCEPT ![i] =
          EndPhase(@, "credential_check",
                   IF OrgMissing(@.cls, @.org_config)
                   THEN Error("TaskRequiresSalesforceOrg", <<>>) ELSE NoError)]
    /\ UNCHANGED <<project_config, sentry, task_config>>

_init_logger(i) ==
    /\ tasks[i].pc = "_init_logger"
    /\ tasks' = [tasks EXCEPT ![i] = EndPhase(@, "_init_logger", NoError)]
    /\ UNCHANGED <<project_config, sentry, task_config>>

\* Task: pass.  BaseTask: project_config.init_sentry(), a call into the project
\* context that returns or raises, then super()._init_mixins().
_init_mixins(i) ==
    /\ tasks[i].pc = "_init_mixins"
    /\ IF IsBaseTask(tasks[i].cls)
       THEN \/ /\ project_config' = [project_config EXCEPT !.sentry_inits = @ + 1]
               /\ tasks' = [tasks EXCEPT ![i] = EndPhase(@, "_init_mixins", NoError)]
            \/ /\ project_config' = project_config
               /\ tasks' = [tasks EXCEPT ![i] =
                     EndPhase(@, "_init_mixins", Error("SentryInitError", <<>>))]
       ELSE /\ project_config' = project_config
            /\ tasks' = [tasks EXCEPT ![i] = EndPhase(@, "_init_mixins", NoError)]
    /\ UNCHANGED <<sentry, task_config>>

\* self.options is task_config.options itself unless that is None; the update
\* and the lookups write into that dict
InitOptions(i) ==
    /\ tasks[i].pc = "_init_options"
    /\ LET r == _init_options(task_config.options, tasks[i].kwargs)
       IN  IF task_config.options_is_None
           THEN /\ tasks' = [tasks EXCEPT ![i] =
                      EndPhase([@ EXCEPT !.options_ref = "own", !.own_options = r.options,
                                          !.resolved = r.options],
                               "_init_options", r.exc)]
                /\ task_config' = task_config
           ELSE /\ tasks' = [tasks EXCEPT ![i] =
                      EndPhase([@ EXCEPT !.options_ref = "task_config", !.resolved = r.options],
                               "_init_options", r.exc)]
                /\ task_config' = [task_config EXCEPT !.options = r.options]
    /\ UNCHANGED <<project_config, sentry>>

ValidateOptions(i) ==
    /\ tasks[i].pc = "_validate_options"
    /\ tasks' = [tasks EXCEPT ![i] =
          EndPhase(@, "_validate_options", _validate_options(@.cls, Options(@)))]
    /\ UNCHANGED <<project_config, sentry, task_config>>

_update_credentials(i) ==
    /\ tasks[i].pc = "_update_credentials"
    /\ tasks' = [tasks EXCEPT ![i] = EndPhase(@, "_update_credentials", NoError)]
    /\ UNCHANGED <<project_config, sentry, task_config>>

_init_task(i) ==
    /\ tasks[i].pc = "_init_task"
    /\ tasks' = [tasks EXCEPT ![i] = EndPhase(@, "_init_task", NoError)]
    /\ UNCHANGED <<project_config, sentry, task_config>>

-----------------------------------------------------------------------------
(* Task.__call__ *)

\* A caller invokes the instance.  The source has no guard on the instance's
\* state: any constructed instance can be called, any number of times.
Call(i) ==
    /\ Idle
    /\ Constructed(tasks[i])
    /\ TotalCalls(tasks) < MaxCalls
    /\ tasks' = [tasks EXCEPT ![i] =
          [@ EXCEPT !.pc = "_log_begin", !.calls = @ + 1, !.error = NoError,
                    !.action_state = "none", !.action_ret = PyNone, !.action_rv = <<>>,
                    !.result_at_call = tasks[i].result,
                    !.return_values_at_call = tasks[i].return_values,
                    !.sentry_at_call = Len(sentry),
                    !.event_at_call = project_config.sentry_event,
                    !.action_error = NoError, !.intercepted = <<>>, !.returned = <<>>]]
    /\ UNCHANGED <<project_config, sentry, task_config>>

\* mutant: the user and the org logged inside a flow too
BeginLines_ignores_flow(t) ==
    << <<"Beginning task:", t.cls>> >>
    \o (IF salesforce_task(t.cls)
        THEN << <<"As user:", t.org_config.username>>,
                <<"In org:", t.org_config.org_id>> >>
        ELSE <<>>)
    \o << <<"">> >>

\* the lines _log_begin hands to the logger
BeginLines(t) ==
    << <<"Beginning task:", t.cls>> >>
    \o (IF salesforce_task(t.cls) /\ ~t.flow
        THEN << <<"As user:", t.org_config.username>>,
                <<"In org:", t.org_config.org_id>> >>
        ELSE <<>>)
    \o << <<"">> >>

_log_begin(i) ==
    /\ tasks[i].pc = "_log_begin"
    /\ tasks' = [tasks EXCEPT ![i] =
          [@ EXCEPT !.pc = "_run_task", !.log = @ \o BeginLines(tasks[i])]]
    /\ UNCHANGED <<project_config, sentry, task_config>>

\* mutant: the interceptor in a finally clause, run on success too
AfterRunTask_finally(self, outcome) ==
    LET t == [self EXCEPT !.action_runs = @ + 1,
                          !.return_values = Update(@, outcome.rv),
                          !.action_state = IF outcome.exc = NoError THEN "returned" ELSE "raised",
                          !.action_ret = outcome.ret,
                          !.action_rv = outcome.rv,
                          !.action_error = outcome.exc]
    IN  IF outcome.exc = NoError
        THEN [t EXCEPT !.result = outcome.ret, !.returned = t.return_values,
                       !.pc = "_process_exception"]
        ELSE IF IsException(outcome.exc)
        THEN [t EXCEPT !.pc = "_process_exception"]
        ELSE [t EXCEPT !.error = outcome.exc, !.pc = "raised"]

\* mutant: result assigned whether or not the action raised
AfterRunTask_assigns_always(self, outcome) ==
    LET t == [self EXCEPT !.action_runs = @ + 1,
                          !.return_values = Update(@, outcome.rv),
                          !.action_state = IF outcome.exc = NoError THEN "returned" ELSE "raised",
                          !.action_ret = outcome.ret,
                          !.action_rv = outcome.rv,
                          !.action_error = outcome.exc,
                          !.result = outcome.ret]
    IN  IF outcome.exc = NoError
        THEN [t EXCEPT !.returned = t.return_values, !.pc = "returned"]
        ELSE IF IsException(outcome.exc)
        THEN [t EXCEPT !.pc = "_process_exception"]
        ELSE [t EXCEPT !.error = outcome.exc, !.pc = "raised"]

\* self.result = self._run_task(); return self.return_values
\* An exception that is an Exception goes to the except clause, any other
\* leaves __call__ directly.  The instance once the action, run on instance
\* `self`, has ended with `outcome`:
AfterRunTask(self, outcome) ==
    LET t == [self EXCEPT !.action_runs = @ + 1,
                          !.return_values = Update(@, outcome.rv),
                          !.action_state = IF outcome.exc = NoError THEN "returned" ELSE "raised",
                          !.action_ret = outcome.ret,
                          !.action_rv = outcome.rv,
                          !.action_error = outcome.exc]
    IN  IF outcome.exc = NoError
        THEN [t EXCEPT !.result = outcome.ret, !.returned = t.return_values,
                       !.pc = "returned"]
        ELSE IF IsException(outcome.exc)
        THEN [t EXCEPT !.pc = "_process_exception"]
        ELSE [t EXCEPT !.error = outcome.exc, !.pc = "raised"]

RunTask(i, outcome) ==
    /\ tasks[i].pc = "_run_task"
    /\ tasks' = [tasks EXCEPT ![i] = AfterRunTask(@, outcome)]
    /\ UNCHANGED <<project_config, sentry, task_config>>

\* option tags: tags['option_' + key] = value
RECURSIVE OptionTags(_)
OptionTags(items) ==
    IF items = <<>> THEN <<>>
    ELSE << [k |-> <<"option_", Head(items).k>>, v |-> Head(items).v] >>
         \o OptionTags(Tail(items))

\* mutant: options whose value is None left out of the tags
Tags_without_none(t, options) ==
    Update(
        Update(<< [k |-> <<"task class">>, v |-> PyStr(<<t.cls>>)] >>,
               IF t.org_config.present
               THEN << [k |-> <<"org username">>, v |-> PyStr(<<t.org_config.username>>)],
                       [k |-> <<"scratch org">>,
                        v |-> PyBool(IF t.org_config.scratch THEN "True" ELSE "False")] >>
               ELSE <<>>),
        OptionTags(SelectSeq(options, LAMBDA item : item.v # PyNone)))

\* the tags dict BaseTask._process_exception builds
Tags(t, options) ==
    Update(
        Update(<< [k |-> <<"task class">>, v |-> PyStr(<<t.cls>>)] >>,
               IF t.org_config.present
               THEN << [k |-> <<"org username">>, v |-> PyStr(<<t.org_config.username>>)],
                       [k |-> <<"scratch org">>,
                        v |-> PyBool(IF t.org_config.scratch THEN "True" ELSE "False")] >>
               ELSE <<>>),
        OptionTags(options))

\* mutant: the error reported whether or not reporting is enabled
UseSentry_always(cls) == IsBaseTask(cls)

\* BaseTask._process_exception with self.project_config.use_sentry true
UseSentry(cls) == IsBaseTask(cls) /\ project_config.use_sentry

\* except Exception as e: self._process_exception(e); raise
\* Task._process_exception is pass.  BaseTask's, with use_sentry, calls the
\* reporting client, which returns a handle or raises; an exception raised
\* there leaves __call__ in place of e.
_process_exception(i) ==
    /\ tasks[i].pc = "_process_exception"
    /\ LET e == tasks[i].action_error
           t == [tasks[i] EXCEPT !.intercepted = Append(@, e)]
       IN  IF UseSentry(t.cls)
           THEN \/ \E resp \in EventIds :
                     /\ sentry' = Append(sentry,
                           [tags |-> Tags(t, Options(t)), error |-> e, resp |-> resp])
                     /\ project_config' = [project_config EXCEPT !.sentry_event = resp]
                     /\ tasks' = [tasks EXCEPT ![i] = [t EXCEPT !.pc = "raised", !.error = e]]
                \/ /\ UNCHANGED <<sentry, project_config>>
                   /\ tasks' = [tasks EXCEPT ![i] =
                         [t EXCEPT !.pc = "raised", !.error = Error("SentryError", <<>>)]]
           ELSE /\ UNCHANGED <<sentry, project_config>>
                /\ tasks' = [tasks EXCEPT ![i] = [t EXCEPT !.pc = "raised", !.error = e]]
    /\ UNCHANGED task_config

-----------------------------------------------------------------------------
(* Spec: the lifecycle of one instance, constructed and then called *)

NewTask ==
    /\ tasks = <<>>
    /\ \E cls \in Classes, org_config \in OrgConfigs, flow \in BOOLEAN,
          kwargs \in KwargsChoices : New(cls, org_config, flow, kwargs)

Construction ==
    \/ \E i \in 1..Len(tasks) : CheckCredentials(i)
    \/ \E i \in 1..Len(tasks) : _init_logger(i)
    \/ \E i \in 1..Len(tasks) : _init_mixins(i)
    \/ \E i \in 1..Len(tasks) : InitOptions(i)
    \/ \E i \in 1..Len(tasks) : ValidateOptions(i)
    \/ \E i \in 1..Len(tasks) : _update_credentials(i)
    \/ \E i \in 1..Len(tasks) : _init_task(i)

Next ==
    \/ NewTask
    \/ Construction
    \/ \E i \in 1..Len(tasks) : Call(i)
    \/ \E i \in 1..Len(tasks) : _log_begin(i)
    \/ \E i \in 1..Len(tasks), outcome \in ActionOutcomes : RunTask(i, outcome)
    \/ \E i \in 1..Len(tasks) : _process_exception(i)

Spec == Init /\ [][Next]_vars

-----------------------------------------------------------------------------
(* SpecConstruct: successive constructions from the one TaskConfig *)

\* reporting and flows play no part in construction: both are off here
InitConstruct ==
    /\ project_config = [use_sentry |-> FALSE, sentry_event |-> PyNone, sentry_inits |-> 0]
    /\ sentry = <<>>
    /\ task_config \in ConfigChoices
    /\ tasks = <<>>

NewFromSameConfig ==
    \E cls \in {"Task", "OrgTask"}, org_config \in OrgConfigs, kwargs \in KwargsChoices :
        New(cls, org_config, FALSE, kwargs)

NextConstruct ==
    \/ NewFromSameConfig
    \/ Construction

SpecConstruct == InitConstruct /\ [][NextConstruct]_vars

-----------------------------------------------------------------------------
(* Properties of the lifecycle, checked under Spec *)

IsPrefix(s, t) == Len(s) <= Len(t) /\ \A n \in 1..Len(s) : s[n] = t[n]

\* the order of the phases as specified
SpecifiedOrder ==
    << "credential_check", "_init_logger", "_init_mixins", "_init_options",
       "_validate_options", "_update_credentials", "_init_task" >>

\* the phase an exception of the constructor comes from
RaisedIn(e) ==
    CASE e.type = "TaskRequiresSalesforceOrg" -> "credential_check"
      [] e.type = "SentryInitError"           -> "_init_mixins"
      [] e.type = "TypeError"                 -> "_init_options"
      [] e.type = "TaskOptionsError"          -> "_validate_options"
      [] OTHER                                -> "none"

\* C1: the phases of every construction run in the specified order, none
\* skipped or reordered; a constructed instance has run all seven; a
\* construction that failed ran nothing after the phase that raised, and its
\* exception left the constructor.
C1_PhasesInOrder ==
    \A i \in 1..Len(tasks) :
        LET t == tasks[i]
        IN  /\ IsPrefix(t.trace, SpecifiedOrder)
            /\ Constructed(t) => t.trace = SpecifiedOrder
            /\ t.pc = "failed" =>
                  /\ t.error # NoError
                  /\ t.trace # <<>>
                  /\ t.trace[Len(t.trace)] = RaisedIn(t.error)
            /\ (~Constructed(t) /\ t.pc # "failed") =>
                  t.pc = SpecifiedOrder[Len(t.trace) + 1]

\* a construction of a task type with required options has run all seven phases
C1_Witness ==
    /\ Len(tasks) >= 1
    /\ tasks[1].pc = "ready"
    /\ tasks[1].trace = SpecifiedOrder
    /\ tasks[1].cls = "OrgTask"

\* C2 (as claimed): when the action raises a failure, the interceptor is
\* invoked exactly once, with that failure, and the call ends with that same
\* failure.
C2_OriginalFailureReraised ==
    \A i \in 1..Len(tasks) :
        LET t == tasks[i]
        IN  (t.action_state = "raised" /\ IsException(t.action_error) /\ t.pc = "raised")
            => /\ t.intercepted = <<t.action_error>>
               /\ t.error = t.action_error

\* C3: when the action returns, the call ends normally with result set to
\* the action's return value, returns return_values, and the interceptor is not
\* invoked.
C3_SuccessSetsResult ==
    \A i \in 1..Len(tasks) :
        LET t == tasks[i]
        IN  t.action_state = "returned"
            => /\ t.pc = "returned"
               /\ t.error = NoError
               /\ t.result = t.action_ret
               /\ AsMap(t.returned) = AsMap(t.return_values)
               /\ t.intercepted = <<>>

\* a call has returned with a result other than None and a return value set
C3_Witness ==
    /\ Len(tasks) >= 1
    /\ tasks[1].pc = "returned"
    /\ tasks[1].result = PyInt("0")
    /\ Has(tasks[1].returned, "id")
    /\ IsBaseTask(tasks[1].cls) /\ project_config.use_sentry

\* C4: a task type with salesforce_task set, constructed without org_config,
\* fails with TaskRequiresSalesforceOrg in the credential check: no other phase
\* has run, self.options is not set, and the TaskConfig is as it was passed in.
C4_NoOrgFailsFirst ==
    \A i \in 1..Len(tasks) :
        LET t == tasks[i]
        IN  (salesforce_task(t.cls) /\ ~t.org_config.present /\ t.trace # <<>>)
            => /\ t.pc = "failed"
               /\ t.error.type = "TaskRequiresSalesforceOrg"
               /\ t.trace = <<"credential_check">>
               /\ t.options_ref = "unset"
               /\ task_config = t.config_at_entry
               /\ project_config.sentry_inits = 0

\* such a construction, with overrides that would have changed the options
C4_Witness ==
    /\ Len(tasks) >= 1
    /\ tasks[1].pc = "failed"
    /\ tasks[1].error.type = "TaskRequiresSalesforceOrg"
    /\ tasks[1].kwargs # <<>>
    /\ ~task_config.options_is_None

-----------------------------------------------------------------------------
(* Properties of option resolution and validation, checked under           *)
(* SpecConstruct.  Those about the values of options are stated of the     *)
(* latest construction, before any later one touches the shared dict.      *)

Latest == tasks[Len(tasks)]

Range(s) == {s[n] : n \in 1..Len(s)}

\* the config options and the overrides a construction was given
ConfigOptionsAtEntry(t) ==
    IF t.config_at_entry.options_is_None THEN <<>> ELSE t.config_at_entry.options

RawKeys(t) == Keys(ConfigOptionsAtEntry(t)) \cup Keys(t.kwargs)

\* the value given for key: the override's if there is one, else the config's
Raw(t, key) ==
    IF Has(t.kwargs, key) THEN Get(t.kwargs, key) ELSE Get(ConfigOptionsAtEntry(t), key)

\* a string of the form $project_config.<attr>, and the attribute it names
IsReference(value) == value.type = "str" /\ Len(value.v) >= 1 /\ value.v[1] = PREFIX
Target(value) == Tail(value.v)
AttrNames == {ProjectAttrs[n].k : n \in 1..Len(ProjectAttrs)}

\* _init_options has run / has returned normally
OptionsInitialised(t) == Len(t.trace) >= 4
OptionsResolved(t) == OptionsInitialised(t) /\ t.error.type # "TypeError"
Validated(t) == Len(t.trace) >= 5

\* the option names declared required: true
RequiredNames(cls) ==
    LET declared == task_options(cls)
    IN  { declared[n].k : n \in { m \in 1..Len(declared) :
              /\ "required" \in Keys(declared[m].v)
              /\ Get(declared[m].v, "required") = PyBool("True") } }

\* C5: a constructed instance has every required option among its options;
\* with a required option absent from config and overrides, construction does
\* not succeed, and validation ends with a TaskOptionsError naming the option.
C5_RequiredOptionsPresent ==
    \A i \in 1..Len(tasks) :
        LET t == tasks[i]
            absent == RequiredNames(t.cls) \ RawKeys(t)
        IN  /\ Constructed(t) => RequiredNames(t.cls) \subseteq Keys(Options(t))
            /\ absent # {} =>
                  /\ ~Constructed(t)
                  /\ Validated(t) =>
                        /\ t.pc = "failed"
                        /\ t.error.type = "TaskOptionsError"
                        /\ absent \subseteq Range(Tail(t.error.args))

\* validation has stopped a construction that lacks one required option
C5_Witness ==
    /\ Len(tasks) >= 1
    /\ Latest.pc = "failed"
    /\ Latest.error = Error("TaskOptionsError", <<"OrgTask", "ns">>)
    /\ Has(Latest.kwargs, "path")

\* C6: validation raises one TaskOptionsError listing exactly the required
\* options that are not among the options, each once, in declaration order;
\* it raises none when no required option is missing.
C6_AllMissingListedInOrder ==
    Len(tasks) >= 1 =>
        LET t == Latest
            declared == [n \in 1..Len(task_options(t.cls)) |-> task_options(t.cls)[n].k]
            IsMissing(name) == name \in RequiredNames(t.cls) /\ name \notin Keys(Options(t))
            expected == SelectSeq(declared, IsMissing)
        IN  Validated(t) =>
                IF expected # <<>>
                THEN t.pc = "failed" /\ t.error = Error("TaskOptionsError", <<t.cls>> \o expected)
                ELSE t.error.type # "TaskOptionsError"

\* both required options are missing and both are listed, path before ns
C6_Witness ==
    /\ Len(tasks) >= 1
    /\ Latest.pc = "failed"
    /\ Latest.error = Error("TaskOptionsError", <<"OrgTask", "path", "ns">>)

\* what a given value becomes: a reference the attribute it names (None when
\* there is no such attribute), anything else itself
Derived(value) ==
    IF IsReference(value)
    THEN IF Target(value) \in AttrNames THEN Get(ProjectAttrs, Target(value)) ELSE PyNone
    ELSE value

\* C7: the options of a constructed task are the config options with the
\* overrides on top: a key of the overrides has the value derived from the
\* override, a key of the config alone the value derived from the config.
C7_OverridesWin ==
    Len(tasks) >= 1 =>
        LET t == Latest
        IN  Constructed(t) =>
                /\ Keys(Options(t)) = RawKeys(t)
                /\ \A key \in Keys(t.kwargs) :
                      Get(Options(t), key) = Derived(Get(t.kwargs, key))
                /\ \A key \in Keys(ConfigOptionsAtEntry(t)) \ Keys(t.kwargs) :
                      Get(Options(t), key) = Derived(Get(ConfigOptionsAtEntry(t), key))

\* a key given different values by config and override, beside a key of the
\* config alone
C7_Witness ==
    /\ Len(tasks) >= 1
    /\ Latest.pc = "ready"
    /\ \E key \in Keys(Latest.kwargs) \cap Keys(ConfigOptionsAtEntry(Latest)) :
          /\ Get(Latest.kwargs, key) # Get(ConfigOptionsAtEntry(Latest), key)
          /\ Get(Options(Latest), key) = Get(Latest.kwargs, key)
    /\ \E key \in Keys(ConfigOptionsAtEntry(Latest)) \ Keys(Latest.kwargs) :
          Get(Options(Latest), key) = Get(ConfigOptionsAtEntry(Latest), key)

C9_ExistingAttrReplaces ==
    Len(tasks) >= 1 =>
        LET t == Latest
        IN  OptionsResolved(t) =>
                \A key \in RawKeys(t) :
                    (IsReference(Raw(t, key)) /\ Target(Raw(t, key)) \in AttrNames)
                    => Get(Options(t), key) = Get(ProjectAttrs, Target(Raw(t, key)))

\* a constructed task with a reference from the config and two from the
\* overrides, one of them to an attribute that is None
C9_Witness ==
    /\ Len(tasks) >= 1
    /\ Latest.pc = "ready"
    /\ \E key \in Keys(ConfigOptionsAtEntry(Latest)) \ Keys(Latest.kwargs) :
          /\ IsReference(Raw(Latest, key))
          /\ Target(Raw(Latest, key)) \in AttrNames
          /\ Get(Options(Latest), key).type = "str"
    /\ \E key \in Keys(Latest.kwargs) :
          /\ Raw(Latest, key) = PyStr(<<PREFIX, "empty">>)
          /\ Get(Options(Latest), key) = PyNone
    /\ \E key \in Keys(Latest.kwargs) :
          /\ Raw(Latest, key) = PyStr(<<PREFIX, "foo">>)
          /\ Get(Options(Latest), key) = PyInt("42")

\* C10 (as claimed): an option value that is not a string passes through
\* _init_options unchanged, and _init_options raises nothing for it.
C10_NonStringsPassThrough ==
    Len(tasks) >= 1 =>
        LET t == Latest
        IN  OptionsInitialised(t) =>
                /\ t.error.type # "TypeError"
                /\ \A key \in RawKeys(t) :
                      Raw(t, key).type # "str" => Get(Options(t), key) = Raw(t, key)

-----------------------------------------------------------------------------
(* Ownership of the options, checked under SpecConstruct *)

\* C11 (as claimed): a construction, however it ends, leaves the options of
\* the TaskConfig it was given as they were when it began.
C11_TaskConfigUnchanged ==
    (Len(tasks) >= 1 /\ AtRest(Latest)) => task_config = Latest.config_at_entry

\* the options the TaskConfig declared before any construction
DeclaredOptions ==
    IF tasks = <<>> THEN <<>> ELSE ConfigOptionsAtEntry(tasks[1])

\* C12 (as claimed): after any number of successful constructions from the
\* TaskConfig, the options of every instance are the declared options of the
\* TaskConfig overlaid with that instance's own overrides, and nothing of any
\* other instance.
C12_OptionsOwnedByInstance ==
    \A i \in 1..Len(tasks) :
        LET t == tasks[i]
        IN  (\A j \in 1..Len(tasks) : Constructed(tasks[j])) =>
                /\ Keys(Options(t)) = Keys(DeclaredOptions) \cup Keys(t.kwargs)
                /\ \A key \in Keys(Options(t)) :
                      Get(Options(t), key) =
                          Derived(IF Has(t.kwargs, key) THEN Get(t.kwargs, key)
                                  ELSE Get(DeclaredOptions, key))

\* C19: the option names of a constructed instance are exactly the names in
\* the config options as the construction found them (none for None) and the
\* names of the overrides.
C19_KeysAreConfigAndOverrides ==
    Len(tasks) >= 1 =>
        (Constructed(Latest) =>
            Keys(Options(Latest)) =
                Keys(ConfigOptionsAtEntry(Latest)) \cup Keys(Latest.kwargs))

\* a constructed instance with names from the config alone, from the overrides
\* alone, and a lookup that gave None
C19_Witness ==
    /\ Len(tasks) >= 1
    /\ Latest.pc = "ready"
    /\ Keys(ConfigOptionsAtEntry(Latest)) \ Keys(Latest.kwargs) # {}
    /\ Keys(Latest.kwargs) \ Keys(ConfigOptionsAtEntry(Latest)) # {}
    /\ \E key \in Keys(Options(Latest)) :
          IsReference(Raw(Latest, key)) /\ Get(Options(Latest), key) = PyNone

\* C20 (as claimed): two successful constructions from the same TaskConfig,
\* both without overrides, resolve to the same options.
C20_SecondConstructionSame ==
    \A i, j \in 1..Len(tasks) :
        (/\ i < j
         /\ tasks[i].kwargs = <<>> /\ tasks[j].kwargs = <<>>
         /\ Constructed(tasks[i]) /\ Constructed(tasks[j]))
        => AsMap(tasks[j].resolved) = AsMap(tasks[i].resolved)

-----------------------------------------------------------------------------
(* Properties of calls, checked under Spec *)

\* a call of t has been made and its action has not returned normally
InFailedOrRunningCall(t) == t.calls >= 1 /\ t.action_state # "returned"

\* C13 (as claimed): over any sequence of calls of one instance the action
\* is executed at most once.
C13_ActionRunsAtMostOnce ==
    \A i \in 1..Len(tasks) : tasks[i].action_runs <= 1

\* C14 (as claimed): when the action raises, result and return_values are
\* what they were when the call began.
C14_FailureLeavesResults ==
    \A i \in 1..Len(tasks) :
        LET t == tasks[i]
        IN  t.action_state = "raised" =>
                /\ t.result = t.result_at_call
                /\ AsMap(t.return_values) = AsMap(t.return_values_at_call)

\* C14 (amended): until the action has returned normally result is what it
\* was when the call began; when the action raises, return_values holds what it
\* held when the call began and what the action stored before raising, nothing
\* else.
C14_FailureLeavesResult ==
    \A i \in 1..Len(tasks) :
        LET t == tasks[i]
        IN  /\ InFailedOrRunningCall(t) => t.result = t.result_at_call
            /\ t.action_state = "raised" =>
                  /\ Keys(t.return_values) =
                        Keys(t.return_values_at_call) \cup Keys(t.action_rv)
                  /\ \A key \in Keys(t.return_values) :
                        Get(t.return_values, key) =
                            IF Has(t.action_rv, key) THEN Get(t.action_rv, key)
                            ELSE Get(t.return_values_at_call, key)

\* a call that failed after an earlier one had set result, the action having
\* stored a return value before it raised
C14_Witness ==
    /\ Len(tasks) >= 1
    /\ tasks[1].pc = "raised"
    /\ tasks[1].action_state = "raised"
    /\ tasks[1].result_at_call = PyInt("0")
    /\ tasks[1].result = PyInt("0")
    /\ tasks[1].action_rv # <<>>

\* C15 (as claimed): no operation of a task changes the project context:
\* its sentry_event attribute is what it was before any task existed.
C15_ProjectContextReadOnly ==
    project_config.sentry_event = PyNone

\* C16: a call of a BaseTask whose action raised an Exception: with
\* use_sentry, when the reporting client returns, it has received the error
\* once in this call and sentry_event is the handle it returned; without
\* use_sentry it has received nothing and sentry_event is as it was.
C16_ReportedOnceWhenEnabled ==
    \A i \in 1..Len(tasks) :
        LET t == tasks[i]
        IN  (/\ t.pc = "raised" /\ IsBaseTask(t.cls)
             /\ t.action_state = "raised" /\ IsException(t.action_error))
            => IF project_config.use_sentry
               THEN /\ Len(sentry) <= t.sentry_at_call + 1
                    /\ t.error = t.action_error =>
                          /\ Len(sentry) = t.sentry_at_call + 1
                          /\ sentry[Len(sentry)].error = t.action_error
                          /\ project_config.sentry_event = sentry[Len(sentry)].resp
               ELSE /\ Len(sentry) = t.sentry_at_call
                    /\ project_config.sentry_event = t.event_at_call

\* a second failed call has been reported and its handle, another than the
\* first call's, is the one stored
C16_Witness ==
    /\ Len(tasks) >= 1
    /\ tasks[1].pc = "raised"
    /\ Len(sentry) = 2
    /\ sentry[1].resp # sentry[2].resp
    /\ project_config.sentry_event = sentry[2].resp

\* the tags specified for an instance
SpecifiedTagKeys(t) ==
    {<<"task class">>}
    \cup (IF t.org_config.present THEN {<<"org username">>, <<"scratch org">>} ELSE {})
    \cup {<<"option_", key>> : key \in Keys(Options(t))}

SpecifiedTag(t, tag) ==
    CASE tag = <<"task class">>   -> PyStr(<<t.cls>>)
      [] tag = <<"org username">> -> PyStr(<<t.org_config.username>>)
      [] tag = <<"scratch org">>  -> PyBool(IF t.org_config.scratch THEN "True" ELSE "False")
      [] OTHER                    -> Get(Options(t), tag[2])

\* C17: every tag set handed to the reporting client holds exactly the task
\* class name, the org username and scratch flag when there is an org_config,
\* and one option_<name> tag per option with the option's value.
C17_TagsAreAsSpecified ==
    \A n \in 1..Len(sentry) :
        \A i \in 1..Len(tasks) :
            LET t == tasks[i]
                tags == sentry[n].tags
            IN  /\ Len(tags) = Cardinality(Keys(tags))
                /\ Keys(tags) = SpecifiedTagKeys(t)
                /\ \A tag \in Keys(tags) : Get(tags, tag) = SpecifiedTag(t, tag)

\* a report about a task with an org_config and an option whose value is None
C17_Witness ==
    /\ Len(sentry) >= 1
    /\ Has(sentry[1].tags, <<"org username">>)
    /\ Has(sentry[1].tags, <<"option_", "ns">>)
    /\ Get(sentry[1].tags, <<"option_", "ns">>) = PyNone
    /\ Has(sentry[1].tags, <<"option_", "path">>)

\* the lines specified for the beginning of one call
SpecifiedBeginLines(t) ==
    IF salesforce_task(t.cls) /\ ~t.flow
    THEN << <<"Beginning task:", t.cls>>,
            <<"As user:", t.org_config.username>>,
            <<"In org:", t.org_config.org_id>>,
            <<"">> >>
    ELSE << <<"Beginning task:", t.cls>>, <<"">> >>

\* the calls of t whose beginning has been logged
BeginningsLogged(t) == IF t.pc = "_log_begin" THEN t.calls - 1 ELSE t.calls

\* C18: the log of an instance holds, for each call, the task type name,
\* with the username and org id exactly when the type has salesforce_task set
\* and there is no flow; the lines of a call are logged before its action runs.
C18_BeginLoggedBeforeAction ==
    \A i \in 1..Len(tasks) :
        LET t == tasks[i]
            lines == SpecifiedBeginLines(t)
        IN  /\ Len(t.log) = BeginningsLogged(t) * Len(lines)
            /\ \A n \in 1..Len(t.log) : t.log[n] = lines[((n - 1) % Len(lines)) + 1]
            /\ t.action_runs <= BeginningsLogged(t)
            /\ t.pc = "_run_task" => t.action_runs = BeginningsLogged(t) - 1

\* the user and the org have been logged and the action is about to run
C18_Witness ==
    /\ Len(tasks) >= 1
    /\ tasks[1].pc = "_run_task"
    /\ tasks[1].action_runs = 0
    /\ tasks[1].log = << <<"Beginning task:", "OrgTask">>, <<"As user:", "dev@scratch">>,
                         <<"In org:", "00D1">>, <<"">> >>

====
